---- MODULE Spec2Model ----
(***************************************************************************)
(* RealtimeAPI (src/lib/api.js): the connection lifecycle of one instance, *)
(* its transports (WebSocket objects), the promises returned by connect(), *)
(* the events it dispatches and the data it writes to the transport.       *)
(*                                                                         *)
(* JavaScript values are modelled as strings; an object is a function from *)
(* Keys to values in which an absent key maps to undefined, as a property  *)
(* read of an absent key does in JavaScript.                               *)
(***************************************************************************)
EXTENDS Integers, Sequences, FiniteSets, TLC

\* ---------------------------------------------------------------- bounds
MaxTransports == 2      \* connect() calls that get past the connected check
MaxConnects   == 1      \* the same, in the specifications with traffic
MaxSends      == 1      \* send() calls that build an event
MaxNestedSends == 2     \* the same where a listener calls send() again
MaxMsgs       == 2      \* inbound messages delivered by the transports
MaxDepth      == 2      \* nesting of send() calls made from client listeners

\* ------------------------------------------------------------ JS values
undefined == "undefined"
Keys      == {"event_id", "type", "foo", "error"}
KeyOrder  == <<"event_id", "type", "foo", "error">>
EmptyObj  == [k \in Keys |-> undefined]

Obj(id, type, foo) ==
    [k \in Keys |-> CASE k = "event_id" -> id
                      [] k = "type"     -> type
                      [] k = "foo"      -> foo
                      [] OTHER          -> undefined]

\* the payload of the synthetic close event: { error: true | false }
CloseEvent(flag) == [k \in Keys |-> IF k = "error" THEN flag ELSE undefined]

\* arguments a caller passes as the second parameter of send(): none, a
\* string, {foo: 1} and {event_id: 'evt_mine', type: 'other.type', foo: 1}
DataArgs ==
    { [kind |-> "undefined", obj |-> EmptyObj],
      [kind |-> "string",    obj |-> EmptyObj],
      [kind |-> "object",    obj |-> Obj(undefined, undefined, "1")],
      [kind |-> "object",    obj |-> Obj("evt_mine", "other.type", "1")] }

EventNames == {"response.create"}

\* event_handler.js and utils.js are not part of the sources at hand.
\* generateId: a fresh, unique, non-empty id per call
IdTable == <<"evt_1", "evt_2", "evt_3", "evt_4", "evt_5", "evt_6">>
generateId(n) == IdTable[n]

\* JSON.stringify of an object: its defined keys, in insertion order
RECURSIVE StringifyFrom(_, _)
StringifyFrom(obj, i) ==
    IF i > Len(KeyOrder) THEN <<"}">>
    ELSE IF obj[KeyOrder[i]] = undefined THEN StringifyFrom(obj, i + 1)
    ELSE <<KeyOrder[i], obj[KeyOrder[i]]>> \o StringifyFrom(obj, i + 1)

Stringify(obj) == <<"{">> \o StringifyFrom(obj, 1)

WellFormed_Lenient(raw) == Len(raw) >= 2 /\ raw[1] = "{"

\* JSON.parse of a text frame, given as its tokens: either a SyntaxError
\* (not WellFormed) or the object holding the last value of each key
WellFormed(raw) ==
    /\ Len(raw) >= 2
    /\ raw[1] = "{"
    /\ raw[Len(raw)] = "}"
    /\ Len(raw) % 2 = 0
    /\ \A i \in 2..(Len(raw) - 1) : raw[i] \notin {"{", "}"}

LastValue(raw, k) ==
    LET at == {i \in 2..(Len(raw) - 2) : i % 2 = 0 /\ raw[i] = k}
    IN  IF at = {} THEN undefined
        ELSE raw[(CHOOSE i \in at : \A j \in at : j <= i) + 1]

JSONParse(raw) == [k \in Keys |-> LastValue(raw, k)]

\* text frames the remote peer may deliver: an event, an object without
\* a type, and text that is not JSON
NotJson == <<"{", "not", "json">>

RawMsgs ==
    { <<"{", "event_id", "srv_1", "type", "session.created", "}">>,
      <<"{", "event_id", "srv_2", "}">>,
      NotJson }

\* ------------------------------------------------------- constructor
\* null, and the values JavaScript takes as false in `!x` and `x || y`
null == "null"

Truthy(v) == v \notin {undefined, null, ""}

\* A URL string is kept as its tokens: the part before the query, then the
\* name and the value of each query parameter.  <<>> is no url at all.
NoUrl == <<>>

\* new URL(url): the part before the query and the list of parameters
URLParse(url) ==
    [base   |-> url[1],
     params |-> [i \in 1..((Len(url) - 1) \div 2) |-> <<url[2 * i], url[2 * i + 1]>>]]

\* urlObj.toString()
RECURSIVE ParamTokens(_)
ParamTokens(params) ==
    IF params = <<>> THEN <<>>
    ELSE <<params[1][1], params[1][2]>> \o ParamTokens(Tail(params))

URLToString(urlObj) == <<urlObj.base>> \o ParamTokens(urlObj.params)

\* searchParams.get(name): the value of the first parameter of that name
SearchGet(params, name) ==
    LET at == {i \in 1..Len(params) : params[i][1] = name}
    IN  IF at = {} THEN null
        ELSE params[CHOOSE i \in at : \A j \in at : i <= j][2]

\* searchParams.set(name, value): the first parameter of that name takes the
\* value and the others of that name go; without one, it is appended
SearchSet(params, name, value) ==
    LET at == {i \in 1..Len(params) : params[i][1] = name}
    IN  IF at = {} THEN Append(params, <<name, value>>)
        ELSE LET first == CHOOSE i \in at : \A j \in at : i <= j
                 keep(pr) == pr[1] # name
             IN  SelectSeq(SubSeq(params, 1, first - 1), keep)
                 \o <<<<name, value>>>>
                 \o SelectSeq(SubSeq(params, first + 1, Len(params)), keep)

\* this.defaultUrl
DefaultUrl == <<"wss://api.openai.com/v1/realtime">>

ErrNoKey      == "Error: API key must be provided either in the URL or as a separate parameter"
ErrKeyDiffers == "Error: API key in URL does not match the provided API key"
ErrBrowser    == "Error: Can not provide API key in the browser"
ErrDefaultUrl == "ReferenceError: defaultUrl is not defined"

\* the errors the constructor throws about its settings
ConfigurationErrors == {ErrNoKey, ErrKeyDiffers, ErrBrowser}

NeedsKey_Never(urlApiKey, apiKey) == FALSE

\* if (!urlApiKey && !apiKey)
NeedsKey(urlApiKey, apiKey) == ~Truthy(urlApiKey) /\ ~Truthy(apiKey)

\* else if (urlApiKey && apiKey && urlApiKey !== apiKey)
KeysDiffer(urlApiKey, apiKey) ==
    Truthy(urlApiKey) /\ Truthy(apiKey) /\ urlApiKey # apiKey

InjectKey_Skip(params, urlApiKey, key) == params

\* if (!urlApiKey) urlObj.searchParams.set('api-key', this.apiKey)
InjectKey(params, urlApiKey, key) ==
    IF ~Truthy(urlApiKey) THEN SearchSet(params, "api-key", key) ELSE params

\* the browser test at the end of the constructor
BrowserRefuses(doc, key, allow) == doc /\ Truthy(key) /\ ~allow

\* new RealtimeAPI(s) where globalThis.document exists or not: how the
\* constructor ends and the fields it has assigned by then
Constructor(s, doc) ==
    LET key0 == IF Truthy(s.apiKey) THEN s.apiKey ELSE null
    IN  IF s.url # NoUrl
        THEN LET urlObj    == URLParse(s.url)
                 urlApiKey == SearchGet(urlObj.params, "api-key")
                 key       == IF Truthy(urlApiKey) THEN urlApiKey ELSE s.apiKey
                 stored    == URLToString([urlObj EXCEPT
                                  !.params = InjectKey(@, urlApiKey, key)])
             IN  IF NeedsKey(urlApiKey, s.apiKey)
                 THEN [outcome |-> ErrNoKey, apiKey |-> key0, url |-> NoUrl]
                 ELSE IF KeysDiffer(urlApiKey, s.apiKey)
                 THEN [outcome |-> ErrKeyDiffers, apiKey |-> key0, url |-> NoUrl]
                 ELSE IF BrowserRefuses(doc, key, s.allow)
                 THEN [outcome |-> ErrBrowser, apiKey |-> key, url |-> stored]
                 ELSE [outcome |-> "ok", apiKey |-> key, url |-> stored]
        ELSE [outcome |-> ErrDefaultUrl, apiKey |-> key0, url |-> NoUrl]

\* settings given to the constructor
Endpoint == "wss://xxx.openai.azure.com/openai/realtime"

Urls ==
    { NoUrl,
      <<Endpoint>>,
      <<Endpoint, "deployment", "gpt-4o">>,
      <<Endpoint, "api-key", "">>,
      <<Endpoint, "api-key", "k1">>,
      <<Endpoint, "api-key", "k2">>,
      <<Endpoint, "deployment", "gpt-4o", "api-key", "k1">> }

ApiKeys == {undefined, "", "k1", "k2"}

SettingsInputs == [url : Urls, apiKey : ApiKeys, allow : BOOLEAN]

\* the instance of the test suite, allowed in a browser where there is one
TestSettings(env) ==
    [url    |-> <<Endpoint, "deployment", "gpt-4o", "api-key", "k1">>,
     apiKey |-> "k1",
     allow  |-> env]

NotMade == [outcome |-> "none", apiKey |-> undefined, url |-> NoUrl]

Slots == 1..MaxTransports

VARIABLES
    document,    \* globalThis.document is present (browser) or not (Node.js)
    settings,    \* the settings given to the constructor
    made,        \* how the constructor ended, and this.apiKey and this.url
    ws,          \* this.ws: 0 is null, otherwise the transport held
    nconn,       \* transports created or about to be created so far
    promise,     \* per connect() call: state and value of its promise
    sock,        \* per transport: its own state, as the remote and close() drive it
    listeners,   \* per transport: the listeners registered on it
    closeCalls,  \* per transport: how many times close() was called on it
    wire,        \* calls of a transport's send(): transport and data
    events,      \* calls of dispatch(), per namespace: event name and event
    nextId,      \* ids generated so far, plus one
    nMsgs,       \* inbound messages delivered so far
    inbox,       \* the text frames delivered to the 'message' listener, in order
    stack,       \* send() calls in progress, innermost last
    ret,         \* the last completed call or callback and its outcome
    discRun      \* consecutive disconnect() calls just made, up to 2

vars == <<document, settings, made, ws, nconn, promise, sock, listeners, closeCalls, wire,
          events, nextId, nMsgs, inbox, stack, ret, discRun>>

\* this.ws = null, and nothing has happened yet
Idle ==
    /\ ws = 0
    /\ nconn = 0
    /\ promise = [c \in Slots |-> [state |-> "none", value |-> undefined]]
    /\ sock = [c \in Slots |-> "none"]
    /\ listeners = [c \in Slots |-> {}]
    /\ closeCalls = [c \in Slots |-> 0]
    /\ wire = <<>>
    /\ events = [close |-> <<>>, client |-> <<>>, server |-> <<>>]
    /\ nextId = 1
    /\ nMsgs = 0
    /\ inbox = <<>>
    /\ stack = <<>>
    /\ ret = <<"new", "ok">>
    /\ discRun = 0

\* the state after construction; env is whether globalThis.document exists
InitIn(env) ==
    /\ document = env
    /\ settings = TestSettings(env)
    /\ made = Constructor(TestSettings(env), env)
    /\ Idle

\* before construction, with any settings, in Node.js or in a browser
InitConstruct ==
    /\ document \in BOOLEAN
    /\ settings \in SettingsInputs
    /\ made = NotMade
    /\ Idle

\* new RealtimeAPI(settings)
Construct ==
    /\ made = NotMade
    /\ made' = Constructor(settings, document)
    /\ ret' = <<"new", made'.outcome>>
    /\ UNCHANGED <<document, settings, ws, nconn, promise, sock, listeners,
                   closeCalls, wire, events, nextId, nMsgs, inbox, stack, discRun>>

\* Node.js, where the test suite runs
Init == InitIn(FALSE)

\* a web browser
InitBrowser == InitIn(TRUE)

\* ------------------------------------------------------------ helpers
IsConnected_Always(w) == TRUE

\* isConnected(): !!this.ws
IsConnected(w) == w # 0

\* a promise settles once: resolve and reject of a settled promise do nothing
Settle(p, c, st, v) ==
    IF p[c].state = "pending"
    THEN [p EXCEPT ![c] = [state |-> st, value |-> v]]
    ELSE p

\* disconnect(ws): the test of its if statement, the transport whose close()
\* it calls (0: none), the value it leaves in this.ws, and what it returns
DisconnectApplies(arg, w) == arg = 0 \/ w = arg

CloseTarget(arg, w) == IF DisconnectApplies(arg, w) THEN w ELSE 0

WsAfterDisconnect_Keep(arg, w) == w

WsAfterDisconnect(arg, w) == IF DisconnectApplies(arg, w) THEN 0 ELSE w

DisconnectReturn(arg, w) == IF DisconnectApplies(arg, w) THEN "true" ELSE undefined

\* the transport's close(): an open or connecting transport starts closing
SockAfterClose(s) == IF s \in {"connecting", "open"} THEN "closing" ELSE s

Closed(s, t) == IF t = 0 THEN s ELSE [s EXCEPT ![t] = SockAfterClose(@)]

Counted(cc, t) == IF t = 0 THEN cc ELSE [cc EXCEPT ![t] = @ + 1]

\* { event_id: generateId('evt_'), type: eventName, ...data }
Spread(id, eventName, data) ==
    [k \in Keys |-> IF data[k] # undefined THEN data[k]
                    ELSE CASE k = "event_id" -> id
                           [] k = "type"     -> eventName
                           [] OTHER          -> undefined]

\* An event name is kept as its namespace and the rest of the name:
\* `client.${eventName}` is <<"client", eventName>>, 'close' is <<"close">>.
\* dispatch(eventName, event), as a call appended to the log of the dispatches
\* of that namespace; by is the transport whose listener dispatched 'close'
\* (0 for the calls of send() and receive())
Dispatch(log, by, eventName, event) ==
    [log EXCEPT ![eventName[1]] =
        Append(@, [name |-> eventName, event |-> event, by |-> by])]

\* the wildcard of an event name: its namespace followed by '*'
Wildcard(eventName) == <<eventName[1], "*">>

\* dispatch(eventName, event) invokes the handlers registered under sub
Matches(sub, eventName) ==
    sub = eventName \/ (Len(eventName) > 1 /\ sub = Wildcard(eventName))

\* the dispatches of log that invoke a handler registered under sub, in order
Invocations(log, sub) == SelectSeq(log, LAMBDA d : Matches(sub, d.name))

Top == stack[Len(stack)]

Pop == SubSeq(stack, 1, Len(stack) - 1)

\* ------------------------------------------------------------ connect()
\* new WebSocket(...), ws.on('message'), and the promise executor's
\* ws.on('error', connectionErrorHandler) and ws.on('open')
CreateTransport(c) ==
    /\ sock' = [sock EXCEPT ![c] = "connecting"]
    /\ listeners' = [listeners EXCEPT
                        ![c] = {"message", "connectionErrorHandler", "open"}]
    /\ promise' = [promise EXCEPT ![c] = [state |-> "pending", value |-> undefined]]

\* connect() up to its first suspension: the connected check, then in a
\* browser the transport, in Node.js the await of import('ws');
\* limit bounds the calls that get past that test
ConnectCall(limit) ==
    /\ UNCHANGED <<settings, made, inbox>>
    /\ stack = <<>>
    /\ discRun' = 0
    /\ IF IsConnected(ws)
       THEN /\ ret' = <<"connect", "Error: Already connected">>
            /\ UNCHANGED <<document, ws, nconn, promise, sock, listeners,
                           closeCalls, wire, events, nextId, nMsgs, stack>>
       ELSE /\ nconn < limit
            /\ nconn' = nconn + 1
            /\ ret' = <<"connect", "promise">>
            /\ IF document
               THEN CreateTransport(nconn + 1)
               ELSE /\ promise' = [promise EXCEPT ![nconn + 1] =
                                     [state |-> "importing", value |-> undefined]]
                    /\ UNCHANGED <<sock, listeners>>
            /\ UNCHANGED <<document, ws, closeCalls, wire, events, nextId,
                           nMsgs, stack>>

\* Node.js: import('ws') has completed and connect() resumes
ConnectResume(c) ==
    /\ UNCHANGED <<settings, made, inbox>>
    /\ stack = <<>>
    /\ promise[c].state = "importing"
    /\ CreateTransport(c)
    /\ ret' = <<"connect", "promise">>
    /\ discRun' = 0
    /\ UNCHANGED <<document, ws, nconn, closeCalls, wire, events, nextId,
                   nMsgs, stack>>

\* ------------------------------------------------- transport callbacks
OpenAssign_Null(c) == 0

\* the value the 'open' listener stores in this.ws
OpenAssign(c) == c

\* the transport opens: the 'open' listener
OnOpen(c) ==
    /\ UNCHANGED <<settings, made, inbox>>
    /\ stack = <<>>
    /\ sock[c] = "connecting"
    /\ "open" \in listeners[c]
    /\ sock' = [sock EXCEPT ![c] = "open"]
    /\ listeners' = [listeners EXCEPT
                        ![c] = (@ \ {"connectionErrorHandler"}) \cup {"error", "close"}]
    /\ ws' = OpenAssign(c)
    /\ promise' = Settle(promise, c, "resolved", "true")
    /\ ret' = <<"open", "ok">>
    /\ discRun' = 0
    /\ UNCHANGED <<document, nconn, closeCalls, wire, events, nextId, nMsgs, stack>>

\* the transport reports an error: connectionErrorHandler before the
\* transport has opened, the listener added by the 'open' listener after
OnError(c) ==
    /\ UNCHANGED <<settings, made, inbox>>
    /\ stack = <<>>
    /\ sock[c] \in {"connecting", "open", "closing"}
    /\ LET t == CloseTarget(c, ws)
       IN  /\ sock' = Closed([sock EXCEPT ![c] = "failed"], t)
           /\ closeCalls' = Counted(closeCalls, t)
    /\ ws' = WsAfterDisconnect(c, ws)
    /\ IF "connectionErrorHandler" \in listeners[c]
       THEN /\ promise' = Settle(promise, c, "rejected", "Error: Could not connect")
            /\ events' = events
       ELSE /\ promise' = promise
            /\ events' = Dispatch(events, c, <<"close">>, CloseEvent("true"))
    /\ ret' = <<"error", "ok">>
    /\ discRun' = 0
    /\ UNCHANGED <<document, nconn, listeners, wire, nextId, nMsgs, stack>>

\* the transport has closed: the 'close' listener, if the transport opened
OnClose(c) ==
    /\ UNCHANGED <<settings, made, inbox>>
    /\ stack = <<>>
    /\ sock[c] \in {"connecting", "open", "closing", "failed"}
    /\ IF "close" \in listeners[c]
       THEN /\ LET t == CloseTarget(c, ws)
               IN  /\ sock' = Closed([sock EXCEPT ![c] = "closed"], t)
                   /\ closeCalls' = Counted(closeCalls, t)
            /\ ws' = WsAfterDisconnect(c, ws)
            /\ events' = Dispatch(events, c, <<"close">>, CloseEvent("false"))
       ELSE /\ sock' = [sock EXCEPT ![c] = "closed"]
            /\ UNCHANGED <<closeCalls, ws, events>>
    /\ ret' = <<"close", "ok">>
    /\ discRun' = 0
    /\ UNCHANGED <<document, nconn, promise, listeners, wire, nextId, nMsgs, stack>>

\* receive(eventName, event)
Receive(log, eventName, event) ==
    Dispatch(Dispatch(log, 0, <<"server", eventName>>, event),
             0, <<"server", "*">>, event)

\* the transport delivers a text frame: the 'message' listener
OnMessage(c, raw) ==
    /\ UNCHANGED <<settings, made>>
    /\ inbox' = Append(inbox, raw)
    /\ stack = <<>>
    /\ sock[c] = "open"
    /\ "message" \in listeners[c]
    /\ nMsgs < MaxMsgs
    /\ nMsgs' = nMsgs + 1
    /\ IF WellFormed(raw)
       THEN /\ events' = Receive(events, JSONParse(raw)["type"], JSONParse(raw))
            /\ ret' = <<"message", "ok">>
       ELSE /\ events' = events
            /\ ret' = <<"message", "SyntaxError">>
    /\ discRun' = 0
    /\ UNCHANGED <<document, ws, nconn, promise, sock, listeners, closeCalls,
                   wire, nextId, stack>>

\* ---------------------------------------------------------- disconnect()
\* disconnect() without an argument, from the caller or from a listener
Disconnect ==
    /\ UNCHANGED <<settings, made, inbox>>
    /\ LET t == CloseTarget(0, ws)
       IN  /\ sock' = Closed(sock, t)
           /\ closeCalls' = Counted(closeCalls, t)
    /\ ws' = WsAfterDisconnect(0, ws)
    /\ ret' = <<"disconnect", DisconnectReturn(0, ws)>>
    /\ discRun' = IF discRun < 2 THEN discRun + 1 ELSE 2
    /\ UNCHANGED <<document, nconn, promise, listeners, wire, events, nextId,
                   nMsgs, stack>>

\* ----------------------------------------------------------------- send()
SendRejects_Never(w) == FALSE

\* if (!this.isConnected()) throw
SendRejects(w) == ~IsConnected(w)

\* send(eventName, data) up to and including dispatch('client.<eventName>'):
\* the listeners of that event run next; limit bounds the events built
SendUpTo(eventName, arg, limit) ==
    /\ UNCHANGED <<settings, made, inbox>>
    /\ Len(stack) < MaxDepth
    /\ discRun' = 0
    /\ IF SendRejects(ws)
       THEN /\ ret' = <<"send", "Error: RealtimeAPI is not connected">>
            /\ UNCHANGED <<events, stack, nextId>>
       ELSE IF arg.kind = "string"
       THEN /\ ret' = <<"send", "Error: data must be an object">>
            /\ UNCHANGED <<events, stack, nextId>>
       ELSE /\ nextId <= limit
            /\ LET data  == IF arg.kind = "undefined" THEN EmptyObj ELSE arg.obj
                   event == Spread(generateId(nextId), eventName, data)
               IN  /\ events' = Dispatch(events, 0, <<"client", eventName>>, event)
                   /\ stack' = Append(stack, [pc |-> "client.type",
                                              name |-> eventName,
                                              event |-> event])
            /\ nextId' = nextId + 1
            /\ ret' = <<"send", "dispatching">>
    /\ UNCHANGED <<document, ws, nconn, promise, sock, listeners, closeCalls,
                   wire, nMsgs>>

Send(eventName, arg) == SendUpTo(eventName, arg, MaxSends)

\* the listeners of client.<eventName> have returned: dispatch('client.*')
SendDispatchAll ==
    /\ UNCHANGED <<settings, made, inbox>>
    /\ stack # <<>>
    /\ Top.pc = "client.type"
    /\ events' = Dispatch(events, 0, <<"client", "*">>, Top.event)
    /\ stack' = [stack EXCEPT ![Len(stack)].pc = "client.*"]
    /\ discRun' = 0
    /\ UNCHANGED <<document, ws, nconn, promise, sock, listeners, closeCalls,
                   wire, nextId, nMsgs>>
    /\ ret' = <<"send", "dispatching">>

\* the listeners of client.* have returned: this.ws.send(JSON.stringify(event))
SendWrite ==
    /\ UNCHANGED <<settings, made, inbox>>
    /\ stack # <<>>
    /\ Top.pc = "client.*"
    /\ IF ws = 0
       THEN /\ ret' = <<"send", "TypeError">>
            /\ wire' = wire
       ELSE /\ ret' = <<"send", "true">>
            /\ wire' = Append(wire, [t |-> ws, data |-> Stringify(Top.event)])
    /\ stack' = Pop
    /\ discRun' = 0
    /\ UNCHANGED <<document, ws, nconn, promise, sock, listeners, closeCalls,
                   events, nextId, nMsgs>>

\* ------------------------------------------------------------------ Next
\* connect(), disconnect() and the open, error and close of the transports
Lifecycle(limit) ==
    \/ ConnectCall(limit)
    \/ \E c \in Slots : ConnectResume(c)
    \/ \E c \in Slots : OnOpen(c)
    \/ \E c \in Slots : OnError(c)
    \/ \E c \in Slots : OnClose(c)
    \/ Disconnect

\* send() and the return of its listeners
Sending ==
    \/ \E n \in EventNames : \E arg \in DataArgs : Send(n, arg)
    \/ SendDispatchAll
    \/ SendWrite

\* send() with room for a second event, built by a listener of the first
SendingNested ==
    \/ \E n \in EventNames : \E arg \in DataArgs : SendUpTo(n, arg, MaxNestedSends)
    \/ SendDispatchAll
    \/ SendWrite

\* inbound frames
Receiving == \E c \in Slots : \E raw \in RawMsgs : OnMessage(c, raw)

Next == Lifecycle(MaxTransports) \/ Sending \/ Receiving

Spec == Init /\ [][Next]_vars

SpecBrowser == InitBrowser /\ [][Next]_vars

\* The callers and the remote peer restricted to one kind of traffic: send()
\* and the message listener share no state but this.ws, which neither writes.
\* SpecLifecycle: no traffic.  SpecSend: outbound only.  SpecReceive: inbound only.
NextLifecycle == Lifecycle(MaxTransports)

SpecLifecycle == Init /\ [][NextLifecycle]_vars

NextSend == Lifecycle(MaxConnects) \/ Sending

SpecSend == Init /\ [][NextSend]_vars

NextReceive == Lifecycle(MaxConnects) \/ Receiving

SpecReceive == Init /\ [][NextReceive]_vars

\* outbound traffic where a listener of one event sends another
NextNested == Lifecycle(MaxConnects) \/ SendingNested

SpecNested == Init /\ [][NextNested]_vars

\* construction alone, over all the settings
NextConstruct == Construct

SpecConstruct == InitConstruct /\ [][NextConstruct]_vars

TypeOK ==
    /\ ws \in 0..MaxTransports
    /\ nconn \in 0..MaxTransports
    /\ \A c \in Slots : sock[c] \in {"none", "connecting", "open", "closing", "failed", "closed"}
    /\ Len(stack) <= MaxDepth

\* ================================================================ claims
Generated == {generateId(n) : n \in 1..(nextId - 1)}

OpenTransports == {c \in Slots : sock[c] = "open"}

\* C1: in every reachable state at most one transport created by the
\* manager is open and not yet closed, also when connect() is called again
\* while an earlier connect() still waits for its transport to open.
C1_AtMostOneOpenTransport == Cardinality(OpenTransports) <= 1

\* C2: every client.<type> or client.* event that has been dispatched has
\* already been passed to the transport's send: no client listener observes
\* an event that has not reached the transport.
C2_WireBeforeDispatch ==
    \A i \in 1..Len(events.client) :
        \E j \in 1..Len(wire) : wire[j].data = Stringify(events.client[i].event)

\* C3: when a transport reports an error before it has opened, the pending
\* connect() is rejected with a connection error, close() has been called on
\* that transport, and isConnected() is false afterwards.
C3_FailedConnectClosesTransport ==
    [][\A c \in Slots :
          (sock[c] = "connecting" /\ sock'[c] = "failed")
          => /\ promise'[c] = [state |-> "rejected", value |-> "Error: Could not connect"]
             /\ closeCalls'[c] > 0
             /\ ws' = 0]_vars

\* C4: an error of a transport whose connect() has resolved is reported by
\* a close event with error: true and by isConnected() becoming false, and
\* leaves the resolved promise as it is.
C4_PostConnectErrorReported ==
    [][\A c \in Slots :
          (promise[c].state = "resolved" /\ sock[c] # "failed" /\ sock'[c] = "failed")
          => /\ events'.close = Append(events.close,
                    [name |-> <<"close">>, event |-> CloseEvent("true"), by |-> c])
             /\ ws' = 0
             /\ promise' = promise]_vars

\* C5: send() called while this.ws is null raises an error, writes nothing
\* to any transport and dispatches no event.
C5_SendWhileDisconnected ==
    [][\A n \in EventNames : \A arg \in DataArgs :
          (ws = 0 /\ Send(n, arg))
          => /\ ret' = <<"send", "Error: RealtimeAPI is not connected">>
             /\ wire' = wire
             /\ events' = events
             /\ stack' = stack]_vars

C5_Witness ==
    /\ ret = <<"send", "Error: RealtimeAPI is not connected">>
    /\ ws = 0
    /\ \E c \in Slots : promise[c].state = "resolved"

\* C6: every event dispatched under client.<type> and every event written to
\* a transport carries an event_id generated by the manager and the type
\* given to send(), whatever keys the payload has.
C6_EventStamped ==
    /\ \A i \in 1..Len(events.client) :
          LET d == events.client[i]
          IN  /\ d.event["event_id"] \in Generated
              /\ d.name[2] # "*" => d.event["type"] = d.name[2]
    /\ \A j \in 1..Len(wire) :
          /\ JSONParse(wire[j].data)["event_id"] \in Generated
          /\ JSONParse(wire[j].data)["type"] \in EventNames

\* C7: disconnect() called twice in a row: each call returns true and leaves
\* isConnected() false, close() is called at most once on a transport, and
\* the second call closes nothing and dispatches no close event.
C7_DisconnectIdempotent ==
    /\ [](discRun >= 1 => ws = 0 /\ ret = <<"disconnect", "true">>)
    /\ [](\A c \in Slots : closeCalls[c] <= 1)
    /\ [][discRun' = 2 => closeCalls' = closeCalls /\ events' = events]_vars

C7_Witness ==
    /\ discRun = 2
    /\ \E c \in Slots : closeCalls[c] = 1 /\ sock[c] = "closing"

\* C8: whenever the promise of a connect() call resolves, it resolves with
\* true and isConnected() is true in that state.
C8_ResolvesConnected ==
    [][\A c \in Slots :
          (promise[c].state # "resolved" /\ promise'[c].state = "resolved")
          => promise'[c].value = "true" /\ ws' # 0]_vars

\* a second connect() resolved after the first connection was disconnected
C8_Witness ==
    /\ promise[1].state = "resolved" /\ closeCalls[1] = 1
    /\ promise[2].state = "resolved" /\ ws = 2
    /\ ret = <<"open", "ok">>

\* C9: an inbound frame that is not JSON raises an error, leaves this.ws as
\* it was and dispatches no server event.
C9_MalformedKeepsConnection ==
    [][\A c \in Slots :
          OnMessage(c, NotJson)
          => /\ ret' = <<"message", "SyntaxError">>
             /\ ws' = ws
             /\ events' = events]_vars

C9_Witness ==
    /\ ret = <<"message", "SyntaxError">>
    /\ ws # 0
    /\ nMsgs = 1

\* C10: an inbound JSON object without a type is not dispatched as a
\* server.<type> or server.* event.
C10_NoTypeNotDispatched ==
    \A i \in 1..Len(events.server) : events.server[i].event["type"] # undefined

\* the credential embedded in the url given to the constructor, if any
UrlKey(url) ==
    IF url = NoUrl THEN null ELSE SearchGet(URLParse(url).params, "api-key")

\* C11: construction with no credential in the url and no explicit one, with
\* a url or with none, raises a configuration error.
C11_NoCredentialIsConfigurationError ==
    (made # NotMade /\ ~Truthy(UrlKey(settings.url)) /\ ~Truthy(settings.apiKey))
    => made.outcome \in ConfigurationErrors

\* C12: with a url given: when the url embeds api-key=X, Y is given and they
\* differ, construction fails; otherwise, with one of them present, the
\* credential is X when the url embeds one and Y otherwise, the stored url
\* carries api-key equal to it, and construction fails only in a browser
\* that was not allowed to hold a key.
C12_CredentialResolved ==
    LET X == UrlKey(settings.url)
        Y == settings.apiKey
        differ == Truthy(X) /\ Truthy(Y) /\ X # Y
    IN  (made # NotMade /\ settings.url # NoUrl)
        => /\ differ => made.outcome \in ConfigurationErrors
           /\ (~differ /\ (Truthy(X) \/ Truthy(Y)))
              => /\ made.apiKey = IF Truthy(X) THEN X ELSE Y
                 /\ UrlKey(made.url) = made.apiKey
                 /\ made.outcome = IF document /\ ~settings.allow
                                   THEN ErrBrowser ELSE "ok"

\* the explicit key was put into a url that had none
C12_Witness ==
    /\ made.outcome = "ok"
    /\ settings.url = <<Endpoint, "deployment", "gpt-4o">>
    /\ settings.apiKey = "k1"
    /\ made.url = <<Endpoint, "deployment", "gpt-4o", "api-key", "k1">>

\* C13: construction with no url and an explicit credential succeeds and the
\* stored url is the default endpoint.
C13_DefaultEndpoint ==
    (/\ made # NotMade
     /\ settings.url = NoUrl
     /\ Truthy(settings.apiKey)
     /\ ~(document /\ ~settings.allow))
    => made.outcome = "ok" /\ made.url = DefaultUrl

Decoded ==
    LET parsed == SelectSeq(inbox, WellFormed)
    IN  [i \in 1..Len(parsed) |-> JSONParse(parsed[i])]

\* the events a listener registered under server.* has been invoked with
ServerAllInvoked ==
    LET calls == Invocations(events.server, <<"server", "*">>)
    IN  [i \in 1..Len(calls) |-> calls[i].event]

\* C15: a listener registered under server.* is invoked exactly once per
\* inbound message, in arrival order, with the decoded object, whose
\* event_id is the one the remote peer assigned.
C15_ServerAllOncePerMessage == ServerAllInvoked = Decoded

\* the data passed to the transports' send(), in the order of the calls
Written == [i \in 1..Len(wire) |-> wire[i].data]

\* the events dispatched under client.*, serialized, in dispatch order
ClientAllDispatched ==
    LET calls == SelectSeq(events.client, LAMBDA d : d.name = <<"client", "*">>)
    IN  [i \in 1..Len(calls) |-> Stringify(calls[i].event)]

\* C16: once the send() calls have returned, those made by client listeners
\* included, and every event dispatched under client.* has been written,
\* the events were written to the transport in the order of their dispatch
\* under client.*.
C16_WrittenInDispatchOrder ==
    (stack = <<>> /\ Len(wire) = Len(ClientAllDispatched))
    => Written = ClientAllDispatched

\* C17: whenever isConnected() is false, a connect() call is possible that
\* is accepted, and no connect() call made then fails with 'Already
\* connected'; an accepted call goes on to create its transport, and a
\* transport that is connecting can open and then is the connection held.
C17_Reusable ==
    /\ []((ws = 0 /\ nconn < MaxTransports)
          => ENABLED (ConnectCall(MaxTransports) /\ ret' = <<"connect", "promise">>))
    /\ [][(ws = 0 /\ ConnectCall(MaxTransports))
          => ret' = <<"connect", "promise">>]_vars
    /\ [](\A c \in Slots : promise[c].state = "importing" => ENABLED ConnectResume(c))
    /\ [](\A c \in Slots : sock[c] = "connecting" => ENABLED (OnOpen(c) /\ ws' = c))

\* connected again after a failed connect(), after a transport error and
\* after disconnect()
C17_Witness ==
    /\ ws = 2
    /\ sock[2] = "open"
    /\ \/ promise[1].state = "rejected"
       \/ sock[1] \in {"failed", "closing", "closed"}

\* C18: whenever a close event is dispatched, isConnected() is false at
\* that moment.
C18_CloseWhileDisconnected ==
    [][events'.close # events.close => ~IsConnected(ws')]_vars

\* the close events dispatched by the listeners of transport c
CloseEventsOf(c) == {i \in 1..Len(events.close) : events.close[i].by = c}

\* C19: for each transport that was connected, at most one close event is
\* dispatched over its lifetime.
C19_AtMostOneClose ==
    \A c \in Slots : Cardinality(CloseEventsOf(c)) <= 1

\* C20: once the transport created by a connect() call has emitted its
\* close, the call has settled: its promise is resolved or rejected.
C20_ConnectSettles ==
    \A c \in Slots :
        sock[c] = "closed" => promise[c].state \in {"resolved", "rejected"}

====
